---- MODULE Spec2Model ----
(***************************************************************************)
(* A model of git_diff.py: the commit-message normalizer                   *)
(* (format_commit_message), the status classifier (get_file_changes), the  *)
(* provider selection (summarize_changes_with_api), the commit applier     *)
(* (commit_changes) and the orchestrator (main).                           *)
(*                                                                         *)
(* A Python str is a sequence of characters; a character is a one-element  *)
(* TLA+ string.  A CJK character is written by its code point, "U+4FEE".   *)
(***************************************************************************)
EXTENDS Integers, Sequences, FiniteSets, TLC

VARIABLES
    \* format_commit_message, applied to a raw summary and then to its own output
    fpc, raw, formatted, reformatted,
    \* get_file_changes
    spc, staged_only, status_output, file_changes,
    \* main, summarize_changes_with_api and commit_changes
    pc, argv, add_ok, mode, diff_content, status_result, MODEL, provider,
    logged_unknown, raw_commit_message, commit_message, choice, input_reads,
    commit_calls, manual_printed, temp_file_bound, temp_file_exists,
    commit_result, exit_code

fmtVars == <<fpc, raw, formatted, reformatted>>
statusVars == <<spc, staged_only, status_output, file_changes>>
mainVars == <<pc, argv, add_ok, mode, diff_content, status_result, MODEL, provider,
              logged_unknown, raw_commit_message, commit_message, choice, input_reads,
              commit_calls, manual_printed, temp_file_bound, temp_file_exists,
              commit_result, exit_code>>
vars == <<fmtVars, statusVars, mainVars>>

\* Python's None, where a str is expected: a sequence that is no str
None == <<"None">>

\* Python's None, where a dict is expected
NoDict == [none |-> TRUE]

----------------------------------------------------------------------------
(* Bounds *)

\* number of lines of a raw summary
MaxLines == 3
\* number of lines of `git status --porcelain`
MaxStatusLines == 4

----------------------------------------------------------------------------
(* Python str operations, on sequences of characters *)

NL == "\n"

\* the characters str.strip() removes (those of them the inputs contain)
Whitespace == {" ", "\n", "\t"}

RECURSIVE LStrip(_)
LStrip(s) == IF s # <<>> /\ Head(s) \in Whitespace THEN LStrip(Tail(s)) ELSE s

RECURSIVE RStrip(_)
RStrip(s) ==
    IF s # <<>> /\ s[Len(s)] \in Whitespace THEN RStrip(SubSeq(s, 1, Len(s) - 1)) ELSE s

\* s.strip()
Strip(s) == RStrip(LStrip(s))

\* s.startswith(p)
StartsWith(s, p) == Len(p) <= Len(s) /\ SubSeq(s, 1, Len(p)) = p

\* sub in s
Contains(s, sub) ==
    \E i \in 1..(Len(s) - Len(sub) + 1) : SubSeq(s, i, i + Len(sub) - 1) = sub

LowerChar(c) ==
    CASE c = "A" -> "a" [] c = "C" -> "c" [] c = "D" -> "d" [] c = "F" -> "f"
      [] c = "G" -> "g" [] c = "I" -> "i" [] c = "R" -> "r" [] c = "U" -> "u"
      [] c = "X" -> "x" [] c = "Y" -> "y" [] c = "E" -> "e" [] c = "S" -> "s"
      [] c = "N" -> "n" [] c = "O" -> "o" [] c = "P" -> "p" [] c = "L" -> "l"
      [] c = "T" -> "t"
      [] OTHER -> c

\* s.lower()
Lower(s) == [i \in 1..Len(s) |-> LowerChar(s[i])]

\* s.split("\n"): never empty, "".split("\n") is [""]
RECURSIVE SplitFrom(_, _, _)
SplitFrom(s, i, cur) ==
    IF i > Len(s) THEN <<cur>>
    ELSE IF s[i] = NL THEN <<cur>> \o SplitFrom(s, i + 1, <<>>)
    ELSE SplitFrom(s, i + 1, Append(cur, s[i]))

Split(s) == SplitFrom(s, 1, <<>>)

\* "\n".join(ls)
RECURSIVE Join(_)
Join(ls) ==
    IF ls = <<>> THEN <<>>
    ELSE IF Len(ls) = 1 THEN ls[1]
    ELSE ls[1] \o <<NL>> \o Join(Tail(ls))

----------------------------------------------------------------------------
(* format_commit_message *)

\* the text returned when the summary has no lines
FallbackMessage ==
    <<"c", "h", "o", "r", "e", ":", " ", "U+81EA", "U+52A8", "U+751F", "U+6210", "U+7684", "U+63D0", "U+4EA4", "U+6D88", "U+606F">>

prefixes ==
    << <<"f", "e", "a", "t", ":">>,
       <<"f", "i", "x", ":">>,
       <<"d", "o", "c", "s", ":">>,
       <<"s", "t", "y", "l", "e", ":">>,
       <<"r", "e", "f", "a", "c", "t", "o", "r", ":">>,
       <<"p", "e", "r", "f", ":">>,
       <<"t", "e", "s", "t", ":">>,
       <<"b", "u", "i", "l", "d", ":">>,
       <<"c", "i", ":">>,
       <<"c", "h", "o", "r", "e", ":">> >>

\* any(first_line.startswith(prefix) for prefix in prefixes)
has_prefix(first_line) == \E i \in 1..Len(prefixes) : StartsWith(first_line, prefixes[i])

\* any(k in line or ... or e in line.lower() for line in lines)
AnyLineHas(lines, exact, lowered) ==
    \E i \in 1..Len(lines) :
        \/ \E k \in exact : Contains(lines[i], k)
        \/ \E k \in lowered : Contains(Lower(lines[i]), k)

FixExact == { <<"U+4FEE", "U+590D">>, <<"U+4FEE", "U+6B63">> }
FixLower == { <<"f", "i", "x">> }
FeatExact == { <<"U+65B0", "U+589E">>, <<"U+6DFB", "U+52A0">> }
FeatLower == { <<"f", "e", "a", "t">>, <<"a", "d", "d">> }
DocsExact == { <<"U+6587", "U+6863">> }
DocsLower == { <<"d", "o", "c">> }
RefactorExact == { <<"U+91CD", "U+6784">> }
RefactorLower == { <<"r", "e", "f", "a", "c", "t", "o", "r">> }

\* InferredPrefix with the feat test moved before the fix test
InferredPrefix_FeatFirst(lines) ==
    IF AnyLineHas(lines, FeatExact, FeatLower) THEN <<"f", "e", "a", "t">>
    ELSE IF AnyLineHas(lines, FixExact, FixLower) THEN <<"f", "i", "x">>
    ELSE IF AnyLineHas(lines, DocsExact, DocsLower) THEN <<"d", "o", "c", "s">>
    ELSE IF AnyLineHas(lines, RefactorExact, RefactorLower) THEN <<"r", "e", "f", "a", "c", "t", "o", "r">>
    ELSE <<"c", "h", "o", "r", "e">>

\* the if/elif chain that infers a prefix from the whole message
InferredPrefix(lines) ==
    IF AnyLineHas(lines, FixExact, FixLower) THEN <<"f", "i", "x">>
    ELSE IF AnyLineHas(lines, FeatExact, FeatLower) THEN <<"f", "e", "a", "t">>
    ELSE IF AnyLineHas(lines, DocsExact, DocsLower) THEN <<"d", "o", "c", "s">>
    ELSE IF AnyLineHas(lines, RefactorExact, RefactorLower) THEN <<"r", "e", "f", "a", "c", "t", "o", "r">>
    ELSE <<"c", "h", "o", "r", "e">>

\* FirstLine without the has_prefix test: a prefix is always put in front
FirstLine_AlwaysTags(lines) == <<"c", "h", "o", "r", "e", ":", " ">> \o lines[1]

\* first_line after the prefix check
FirstLine(lines) ==
    IF has_prefix(lines[1]) THEN lines[1]
    ELSE InferredPrefix(lines) \o <<":", " ">> \o lines[1]

\* DetailLine without the "- " put in front
DetailLine_Verbatim(line) == line

\* what the loop appends for one non-blank line of lines[1:]
DetailLine(line) ==
    IF ~StartsWith(Strip(line), <<"-">>) /\ ~StartsWith(Strip(line), <<"*">>)
    THEN <<"-", " ">> \o Strip(line)
    ELSE line

\* the loop over lines[1:], blank lines skipped
RECURSIVE DetailLines(_)
DetailLines(rest) ==
    IF rest = <<>> THEN <<>>
    ELSE IF Strip(Head(rest)) # <<>> THEN <<DetailLine(Head(rest))>> \o DetailLines(Tail(rest))
    ELSE DetailLines(Tail(rest))

\* the blank line appended after the first line
Separator(lines) == IF Strip(lines[2]) # <<>> THEN << <<>> >> ELSE <<>>

formatted_lines(lines) ==
    <<FirstLine(lines)>> \o
    (IF Len(lines) > 1 THEN Separator(lines) \o DetailLines(Tail(lines)) ELSE <<>>)

format_commit_message(text) ==
    LET lines == Split(Strip(text))
    IN  IF lines = <<>> THEN FallbackMessage ELSE Join(formatted_lines(lines))

----------------------------------------------------------------------------
(* The raw summaries format_commit_message is applied to *)

SummaryLines ==
    { <<>>,
      <<" ">>,
      <<"f", "e", "a", "t", ":", " ", "u">>,
      <<"c", "h", "o", "r", "e", ":", " ", "u", " ">>,
      <<"F", "i", "x", " ", "u">>,
      <<"a", "d", "d", " ", "u">>,
      <<"u", " ", "d", "o", "c">>,
      <<"R", "e", "f", "a", "c", "t", "o", "r">>,
      <<"u">>,
      <<"-", " ", "u">>,
      <<"*", " ", "a", "d", "d">>,
      <<" ", "-", "u", " ">>,
      <<"U+65B0", "U+589E">> }

SeqsUpTo(S, n) == UNION { [1..k -> S] : k \in 0..n }

\* every text of at most MaxLines lines, each line one of SummaryLines
RawSummaries == { Join(ls) : ls \in SeqsUpTo(SummaryLines, MaxLines) }

InitFormat ==
    /\ fpc = "start"
    /\ raw \in RawSummaries
    /\ formatted = None
    /\ reformatted = None

\* commit_message = format_commit_message(raw_commit_message)
Format ==
    /\ fpc = "start"
    /\ formatted' = format_commit_message(raw)
    /\ fpc' = "formatted"
    /\ UNCHANGED <<raw, reformatted, statusVars, mainVars>>

\* the formatted message given to format_commit_message again
Reformat ==
    /\ fpc = "formatted"
    /\ reformatted' = format_commit_message(formatted)
    /\ fpc' = "done"
    /\ UNCHANGED <<raw, formatted, statusVars, mainVars>>

----------------------------------------------------------------------------
(* get_file_changes *)

\* A line of `git status --porcelain`: the two status characters, a space and the
\* path.  The path is one element of the sequence: the code never looks into it.
StatusCodes ==
    { <<"?", "?">>, <<"A", " ">>, <<"M", " ">>, <<"D", " ">>,
      <<" ", "M">>, <<"A", "M">>, <<"R", " ">> }

\* git reports each path once, in path order
PathOf(i) == "f" \o ToString(i) \o ".txt"

StatusLine(code, i) == code \o <<" ", PathOf(i)>>

StatusOutputs(n) ==
    UNION { { [i \in 1..k |-> StatusLine(codes[i], i)] : codes \in [1..k -> StatusCodes] }
            : k \in 0..n }

\* IsNewFile without the staged_only test: untracked paths always count as new
IsNewFile_AlwaysUntracked(so, line) ==
    StartsWith(line, <<"?", "?", " ">>) \/ StartsWith(line, <<"A", " ">>)

\* the condition of the first branch of the loop
IsNewFile(so, line) ==
    \/ so /\ StartsWith(line, <<"A", " ">>)
    \/ ~so /\ (StartsWith(line, <<"?", "?", " ">>) \/ StartsWith(line, <<"A", " ">>))

\* line[3:]
PathField(line) == SubSeq(line, 4, Len(line))

\* the for loop: each line goes to the list of the first branch whose condition holds
RECURSIVE Classify(_, _, _)
Classify(so, lines, acc) ==
    IF lines = <<>> THEN acc
    ELSE LET line == Head(lines)
             next ==
                 IF IsNewFile(so, line)
                 THEN [acc EXCEPT !.new_files = Append(@, PathField(line))]
                 ELSE IF StartsWith(line, <<"M", " ">>)
                 THEN [acc EXCEPT !.modified_files = Append(@, PathField(line))]
                 ELSE IF StartsWith(line, <<"D", " ">>)
                 THEN [acc EXCEPT !.deleted_files = Append(@, PathField(line))]
                 ELSE acc
         IN  Classify(so, Tail(lines), next)

\* the dict get_file_changes returns when git status succeeds
get_file_changes(so, lines) ==
    Classify(so, lines, [new_files |-> <<>>, modified_files |-> <<>>, deleted_files |-> <<>>])

InitStatus ==
    /\ spc = "start"
    /\ staged_only \in BOOLEAN
    /\ status_output \in StatusOutputs(MaxStatusLines)
    /\ file_changes = NoDict

\* git status exits 0
GetFileChanges ==
    /\ spc = "start"
    /\ file_changes' = get_file_changes(staged_only, status_output)
    /\ spc' = "returned"
    /\ UNCHANGED <<staged_only, status_output, fmtVars, mainVars>>

\* git status exits non-zero: CalledProcessError, None is returned
GetFileChangesFails ==
    /\ spc = "start"
    /\ file_changes' = NoDict
    /\ spc' = "failed"
    /\ UNCHANGED <<staged_only, status_output, fmtVars, mainVars>>

----------------------------------------------------------------------------
(* summarize_changes_with_api *)

OPEN_AI == <<"O", "P", "E", "N", "_", "A", "I">>
CLAUDE == <<"C", "L", "A", "U", "D", "E">>
gpt == <<"g", "p", "t">>
claude == <<"c", "l", "a", "u", "d", "e">>

\* the values of the environment variable MODEL; None when it is not set
ModelSettings ==
    { None,
      <<>>,
      <<"O", "P", "E", "N", "_", "A", "I">>,
      <<"C", "L", "A", "U", "D", "E">>,
      <<"g", "p", "t", "-", "4", "o">>,
      <<"c", "l", "a", "u", "d", "e", "-", "3">>,
      <<"C", "l", "a", "u", "d", "e", "-", "3">>,
      <<"m", "y", "-", "g", "p", "t">>,
      <<"l", "l", "a", "m", "a">> }

\* os.environ.get("MODEL", "OPEN_AI")
ModelOf(setting) == IF setting = None THEN OPEN_AI ELSE setting

\* SelectProvider with the two prefix tests only
SelectProvider_PrefixOnly(model) ==
    IF model = <<>> \/ StartsWith(model, gpt) THEN "openai"
    ELSE IF StartsWith(model, claude) THEN "claude"
    ELSE "unknown"

\* the if/elif/else on the model string
SelectProvider(model) ==
    IF model = OPEN_AI \/ StartsWith(model, gpt) THEN "openai"
    ELSE IF model = CLAUDE \/ StartsWith(model, claude) THEN "claude"
    ELSE "unknown"

\* what request_open_ai and request_claude_ai return: None without an API key, on a
\* status other than 200 and on an exception of the request, else the reply's text
ProviderReplies ==
    { None,
      <<>>,
      <<"f", "e", "a", "t", ":", " ", "u">>,
      <<"F", "i", "x", " ", "u", "\n", "a", "d", "d", " ", "u">> }

----------------------------------------------------------------------------
(* main and commit_changes *)

Flags == {"--auto-commit", "--confirm", "--no-add", "--last-commit"}

auto_commit == "--auto-commit" \in argv
confirm_commit == "--confirm" \in argv
no_add_commit == "--no-add" \in argv

\* what the diff commands give: None on CalledProcessError, else git's output
DiffOutputs == { None, <<>>, <<"d", "i", "f", "f">> }

\* the status listings of the runs of main
MainStatusOutputs ==
    { <<>>,
      <<StatusLine(<<"?", "?">>, 1), StatusLine(<<"M", " ">>, 2)>> }

\* the lines typed at the (y/n) question
TypedLines ==
    { <<"y">>, <<"y", "e", "s">>, <<"Y">>, <<" ", "Y", "e", "s", " ">>, <<"n">>, <<>>, <<"y", "e", "p">> }

\* choice == "y" or choice == "yes", with choice = input().strip().lower()
Affirmative(line) == Lower(Strip(line)) \in { <<"y">>, <<"y", "e", "s">> }

\* Python truthiness of a str or None
Truthy(x) == x # None /\ x # <<>>

\* CommitsAtOnce without the test of mode
CommitsAtOnce_AnyMode == auto_commit

\* the branch of main that commits without asking
CommitsAtOnce == mode = "staged" /\ auto_commit

\* the branch of main that asks first
AsksFirst == mode = "staged" /\ ~auto_commit /\ confirm_commit

InitMain ==
    /\ pc = "start"
    /\ argv \in SUBSET Flags
    /\ MODEL \in ModelSettings
    /\ add_ok = TRUE
    /\ mode = "unset"
    /\ diff_content = None
    /\ status_result = NoDict
    /\ provider = "none"
    /\ logged_unknown = FALSE
    /\ raw_commit_message = None
    /\ commit_message = None
    /\ choice = None
    /\ input_reads = 0
    /\ commit_calls = 0
    /\ manual_printed = FALSE
    /\ temp_file_bound = FALSE
    /\ temp_file_exists = FALSE
    /\ commit_result = <<>>
    /\ exit_code = -1

\* the variables of a run of main an action leaves alone, but for those named
MainUnchanged(changed) ==
    /\ UNCHANGED <<fmtVars, statusVars>>
    /\ "argv" \in changed \/ UNCHANGED argv
    /\ "MODEL" \in changed \/ UNCHANGED MODEL
    /\ "add_ok" \in changed \/ UNCHANGED add_ok
    /\ "mode" \in changed \/ UNCHANGED mode
    /\ "diff_content" \in changed \/ UNCHANGED diff_content
    /\ "status_result" \in changed \/ UNCHANGED status_result
    /\ "provider" \in changed \/ UNCHANGED <<provider, logged_unknown, raw_commit_message>>
    /\ "commit_message" \in changed \/ UNCHANGED commit_message
    /\ "choice" \in changed \/ UNCHANGED <<choice, input_reads>>
    /\ "commit_calls" \in changed \/ UNCHANGED commit_calls
    /\ "manual_printed" \in changed \/ UNCHANGED manual_printed
    /\ "temp_file" \in changed \/ UNCHANGED <<temp_file_bound, temp_file_exists>>
    /\ "commit_result" \in changed \/ UNCHANGED commit_result
    /\ "exit_code" \in changed \/ UNCHANGED exit_code

\* git add . ; main goes on whether or not it succeeds
AddAllChanges ==
    /\ pc = "start"
    /\ ~no_add_commit
    /\ add_ok' \in BOOLEAN
    /\ pc' = "diff"
    /\ MainUnchanged({"add_ok"})

\* --no-add: git add is skipped
SkipAdd ==
    /\ pc = "start"
    /\ no_add_commit
    /\ pc' = "diff"
    /\ MainUnchanged({})

GetLastCommitDiff ==
    /\ pc = "diff"
    /\ "--last-commit" \in argv
    /\ diff_content' \in DiffOutputs
    /\ mode' = "last_commit"
    /\ pc' = "got_diff"
    /\ MainUnchanged({"diff_content", "mode"})

GetStagedDiff ==
    /\ pc = "diff"
    /\ "--last-commit" \notin argv
    /\ diff_content' \in DiffOutputs
    /\ mode' = "staged"
    /\ pc' = "got_diff"
    /\ MainUnchanged({"diff_content", "mode"})

\* if not diff_content: sys.exit(1)
ExitNoDiff ==
    /\ pc = "got_diff"
    /\ ~Truthy(diff_content)
    /\ exit_code' = 1
    /\ pc' = "exited"
    /\ MainUnchanged({"exit_code"})

\* file_changes = get_file_changes(no_add_commit)
MainGetFileChanges ==
    /\ pc = "got_diff"
    /\ Truthy(diff_content)
    /\ \/ status_result' = NoDict
       \/ \E out \in MainStatusOutputs : status_result' = get_file_changes(no_add_commit, out)
    /\ pc' = "got_status"
    /\ MainUnchanged({"status_result"})

\* if not file_changes: sys.exit(1)
ExitNoStatus ==
    /\ pc = "got_status"
    /\ status_result = NoDict
    /\ exit_code' = 1
    /\ pc' = "exited"
    /\ MainUnchanged({"exit_code"})

SummarizeOpenAI ==
    /\ pc = "got_status"
    /\ status_result # NoDict
    /\ SelectProvider(ModelOf(MODEL)) = "openai"
    /\ provider' = "openai"
    /\ raw_commit_message' \in ProviderReplies
    /\ UNCHANGED logged_unknown
    /\ pc' = "summarized"
    /\ MainUnchanged({"provider"})

SummarizeClaude ==
    /\ pc = "got_status"
    /\ status_result # NoDict
    /\ SelectProvider(ModelOf(MODEL)) = "claude"
    /\ provider' = "claude"
    /\ raw_commit_message' \in ProviderReplies
    /\ UNCHANGED logged_unknown
    /\ pc' = "summarized"
    /\ MainUnchanged({"provider"})

\* logger.error, return None
SummarizeUnknown ==
    /\ pc = "got_status"
    /\ status_result # NoDict
    /\ SelectProvider(ModelOf(MODEL)) = "unknown"
    /\ logged_unknown' = TRUE
    /\ raw_commit_message' = None
    /\ UNCHANGED provider
    /\ pc' = "summarized"
    /\ MainUnchanged({"provider"})

\* the else branch of `if raw_commit_message`: a warning, and main returns
NoMessage ==
    /\ pc = "summarized"
    /\ ~Truthy(raw_commit_message)
    /\ exit_code' = 0
    /\ pc' = "done"
    /\ MainUnchanged({"exit_code"})

FormatMessage ==
    /\ pc = "summarized"
    /\ Truthy(raw_commit_message)
    /\ commit_message' = format_commit_message(raw_commit_message)
    /\ pc' = "show"
    /\ MainUnchanged({"commit_message"})

\* mode is "last_commit": the message is shown and main returns
ShowLastCommit ==
    /\ pc = "show"
    /\ mode # "staged"
    /\ exit_code' = 0
    /\ pc' = "done"
    /\ MainUnchanged({"exit_code"})

\* neither --auto-commit nor --confirm: the commands to commit by hand are shown
ShowCommands ==
    /\ pc = "show"
    /\ mode = "staged" /\ ~auto_commit /\ ~confirm_commit
    /\ manual_printed' = TRUE
    /\ exit_code' = 0
    /\ pc' = "done"
    /\ MainUnchanged({"manual_printed", "exit_code"})

\* success, result = commit_changes(commit_message), in the auto_commit branch
AutoCommit ==
    /\ pc = "show"
    /\ CommitsAtOnce
    /\ commit_calls' = commit_calls + 1
    /\ pc' = "cc_getcwd"
    /\ MainUnchanged({"commit_calls"})

\* choice = input().strip().lower()
ReadChoice ==
    /\ pc = "show"
    /\ AsksFirst
    /\ choice' \in TypedLines
    /\ input_reads' = input_reads + 1
    /\ pc' = "chose"
    /\ MainUnchanged({"choice"})

ConfirmCommit ==
    /\ pc = "chose"
    /\ Affirmative(choice)
    /\ commit_calls' = commit_calls + 1
    /\ pc' = "cc_getcwd"
    /\ MainUnchanged({"commit_calls"})

DeclineCommit ==
    /\ pc = "chose"
    /\ ~Affirmative(choice)
    /\ manual_printed' = TRUE
    /\ exit_code' = 0
    /\ pc' = "done"
    /\ MainUnchanged({"manual_printed", "exit_code"})

\* An exception inside the try of commit_changes.  Both handlers test
\* os.path.exists(temp_file): with temp_file not yet assigned that raises
\* UnboundLocalError out of commit_changes, and main ends with a traceback.
\* Otherwise the file is removed if it exists and (False, output) is returned.
ExceptHandler(output) ==
    IF temp_file_bound
    THEN /\ temp_file_exists' = FALSE
         /\ UNCHANGED temp_file_bound
         /\ commit_result' = <<"False", output>>
         /\ pc' = "cc_returned"
         /\ UNCHANGED exit_code
    ELSE /\ UNCHANGED <<temp_file_bound, temp_file_exists>>
         /\ commit_result' = <<"raised", "UnboundLocalError">>
         /\ pc' = "crashed"
         /\ exit_code' = 1

\* temp_file = os.path.join(os.getcwd(), "temp_commit_msg.txt")
CcGetcwd ==
    /\ pc = "cc_getcwd"
    /\ temp_file_bound' = TRUE
    /\ UNCHANGED temp_file_exists
    /\ pc' = "cc_open"
    /\ MainUnchanged({"temp_file"})

\* os.getcwd() raises OSError: the working directory is gone
CcGetcwdFails ==
    /\ pc = "cc_getcwd"
    /\ ExceptHandler("str(e)")
    /\ MainUnchanged({"temp_file", "commit_result", "exit_code"})

\* open(temp_file, "w")
CcOpen ==
    /\ pc = "cc_open"
    /\ temp_file_exists' = TRUE
    /\ UNCHANGED temp_file_bound
    /\ pc' = "cc_write"
    /\ MainUnchanged({"temp_file"})

\* open raises OSError: the file is not created
CcOpenFails ==
    /\ pc = "cc_open"
    /\ ExceptHandler("str(e)")
    /\ MainUnchanged({"temp_file", "commit_result", "exit_code"})

\* f.write(commit_message)
CcWrite ==
    /\ pc = "cc_write"
    /\ pc' = "cc_git"
    /\ MainUnchanged({})

CcWriteFails ==
    /\ pc = "cc_write"
    /\ ExceptHandler("str(e)")
    /\ MainUnchanged({"temp_file", "commit_result", "exit_code"})

\* git commit -F temp_file exits 0
CcGitCommit ==
    /\ pc = "cc_git"
    /\ pc' = "cc_remove"
    /\ MainUnchanged({})

\* git commit exits non-zero: CalledProcessError
CcGitCommitFails ==
    /\ pc = "cc_git"
    /\ ExceptHandler("e.stderr")
    /\ MainUnchanged({"temp_file", "commit_result", "exit_code"})

\* subprocess.run raises another exception: git cannot be run
CcGitCannotRun ==
    /\ pc = "cc_git"
    /\ ExceptHandler("str(e)")
    /\ MainUnchanged({"temp_file", "commit_result", "exit_code"})

\* os.remove(temp_file); return True, result.stdout
CcRemove ==
    /\ pc = "cc_remove"
    /\ temp_file_exists' = FALSE
    /\ UNCHANGED temp_file_bound
    /\ commit_result' = <<"True", "result.stdout">>
    /\ pc' = "cc_returned"
    /\ MainUnchanged({"temp_file", "commit_result"})

\* main prints the outcome; after a failure also the command to commit by hand
ReportCommit ==
    /\ pc = "cc_returned"
    /\ manual_printed' = (commit_result[1] = "False")
    /\ exit_code' = 0
    /\ pc' = "done"
    /\ MainUnchanged({"manual_printed", "exit_code"})

----------------------------------------------------------------------------
(* Specifications *)

FormatIdle == fpc = "idle" /\ raw = None /\ formatted = None /\ reformatted = None

StatusIdle ==
    spc = "idle" /\ staged_only = FALSE /\ status_output = <<>> /\ file_changes = NoDict

MainIdle ==
    /\ pc = "idle" /\ argv = {} /\ MODEL = None /\ add_ok = TRUE /\ mode = "unset"
    /\ diff_content = None /\ status_result = NoDict /\ provider = "none"
    /\ logged_unknown = FALSE /\ raw_commit_message = None /\ commit_message = None
    /\ choice = None /\ input_reads = 0 /\ commit_calls = 0 /\ manual_printed = FALSE
    /\ temp_file_bound = FALSE /\ temp_file_exists = FALSE /\ commit_result = <<>>
    /\ exit_code = -1

\* format_commit_message on its own
InitFormatSpec == InitFormat /\ StatusIdle /\ MainIdle
NextFormat == Format \/ Reformat
SpecFormat == InitFormatSpec /\ [][NextFormat]_vars

\* get_file_changes on its own
InitStatusSpec == FormatIdle /\ InitStatus /\ MainIdle
NextStatus == GetFileChanges \/ GetFileChangesFails
SpecStatus == InitStatusSpec /\ [][NextStatus]_vars

\* a run of main
InitMainSpec == FormatIdle /\ StatusIdle /\ InitMain
NextMain ==
    \/ AddAllChanges \/ SkipAdd \/ GetLastCommitDiff \/ GetStagedDiff
    \/ ExitNoDiff \/ MainGetFileChanges \/ ExitNoStatus
    \/ SummarizeOpenAI \/ SummarizeClaude \/ SummarizeUnknown
    \/ NoMessage \/ FormatMessage \/ ShowLastCommit \/ ShowCommands
    \/ AutoCommit \/ ReadChoice \/ ConfirmCommit \/ DeclineCommit
    \/ CcGetcwd \/ CcGetcwdFails \/ CcOpen \/ CcOpenFails \/ CcWrite \/ CcWriteFails
    \/ CcGitCommit \/ CcGitCommitFails \/ CcGitCannotRun \/ CcRemove \/ ReportCommit
SpecMain == InitMainSpec /\ [][NextMain]_vars

----------------------------------------------------------------------------
(* Properties of format_commit_message, under SpecFormat *)

Formatted == fpc \in {"formatted", "done"}

\* the lines of a text
LinesOf(text) == Split(text)

\* the headline of the output
Headline == LinesOf(formatted)[1]

\* the output lines after the headline, but for the blank line right after it
OutputDetails ==
    LET rest == Tail(LinesOf(formatted))
    IN  IF rest # <<>> /\ Head(rest) = <<>> THEN Tail(rest) ELSE rest

IsBlank(line) == Strip(line) = <<>>

IsBullet(line) == StartsWith(Strip(line), <<"-">>) \/ StartsWith(Strip(line), <<"*">>)

\* the tag the precedence order gives: fix, then feat, then docs, then refactor
PrecedenceTag(lines) ==
    LET has(exact, lowered) == AnyLineHas(lines, exact, lowered)
    IN  CASE has(FixExact, FixLower) -> <<"f", "i", "x">>
          [] ~has(FixExact, FixLower) /\ has(FeatExact, FeatLower) -> <<"f", "e", "a", "t">>
          [] ~has(FixExact, FixLower) /\ ~has(FeatExact, FeatLower)
             /\ has(DocsExact, DocsLower) -> <<"d", "o", "c", "s">>
          [] ~has(FixExact, FixLower) /\ ~has(FeatExact, FeatLower)
             /\ ~has(DocsExact, DocsLower) /\ has(RefactorExact, RefactorLower)
               -> <<"r", "e", "f", "a", "c", "t", "o", "r">>
          [] OTHER -> <<"c", "h", "o", "r", "e">>

\* C1: format_commit_message is idempotent: applied to one of its own outputs it
\* returns that output unchanged.  Stated for the outputs the claim singles out, those
\* with detail lines after the headline.
C1_Idempotent ==
    (fpc = "done" /\ Len(LinesOf(formatted)) > 1) => reformatted = formatted

\* C2: for an empty or whitespace-only summary the output is exactly the fallback
\* headline, with no detail line.
C2_EmptyGivesFallback == (Formatted /\ IsBlank(raw)) => formatted = FallbackMessage

\* C3, as stated: every detail line of the output starts with "- " and none is blank.
C3_DetailsStartWithDashSpace ==
    Formatted =>
        \A i \in 1..Len(OutputDetails) :
            StartsWith(OutputDetails[i], <<"-", " ">>) /\ ~IsBlank(OutputDetails[i])

\* C3, amended: no detail line of the output is blank, and each starts with "- "
\* unless it is a line of the summary that, leading whitespace aside, already began
\* with "-" or "*", which is kept as it was.
C3_DetailsAreBullets ==
    Formatted =>
        \A i \in 1..Len(OutputDetails) :
            LET d == OutputDetails[i]
                source == Tail(LinesOf(Strip(raw)))
            IN  /\ ~IsBlank(d)
                /\ \/ StartsWith(d, <<"-", " ">>)
                   \/ IsBullet(d) /\ \E j \in 1..Len(source) : source[j] = d

\* a three-line summary with a "*" line kept and a plain line rewritten
C3_Witness ==
    /\ fpc = "formatted"
    /\ raw = <<"f", "e", "a", "t", ":", " ", "u", "\n", "*", " ", "a", "d", "d", "\n", "u">>
    /\ formatted = <<"f", "e", "a", "t", ":", " ", "u", "\n", "\n", "*", " ", "a", "d", "d", "\n", "-", " ", "u">>

\* C4, as stated: when the first line of the summary starts with a recognized
\* prefix, the headline of the output is that first line unchanged.
C4_HeadlineIsFirstLine ==
    (Formatted /\ has_prefix(LinesOf(raw)[1])) => Headline = LinesOf(raw)[1]

\* C4, amended: when the first line of the summary starts with a recognized prefix,
\* the headline is that first line, unchanged when a non-blank line follows it and
\* with its trailing whitespace removed when none does.
C4_HeadlineIsTrimmedFirstLine ==
    (Formatted /\ has_prefix(LinesOf(raw)[1])) =>
        LET lines == LinesOf(raw)
            followed == \E j \in 2..Len(lines) : ~IsBlank(lines[j])
        IN  Headline = IF followed THEN lines[1] ELSE RStrip(lines[1])

\* a tagged first line, with keywords of other tags on the lines after it
C4_Witness ==
    /\ fpc = "formatted"
    /\ raw = <<"f", "e", "a", "t", ":", " ", "u", "\n", "F", "i", "x", " ", "u", "\n", "u", " ", "d", "o", "c">>
    /\ Headline = <<"f", "e", "a", "t", ":", " ", "u">>

\* C5, as stated: when line 0 of the summary has no recognized prefix, the headline
\* is "<tag>: <line 0>", the tag found by scanning all lines in precedence order.
\* Stated for the summaries that are not blank.
C5_HeadlineIsTagThenLine0 ==
    (Formatted /\ ~IsBlank(raw) /\ ~has_prefix(LinesOf(raw)[1])) =>
        Headline = PrecedenceTag(LinesOf(raw)) \o <<":", " ">> \o LinesOf(raw)[1]

\* C5, amended: with the lines taken from the summary after whitespace is trimmed
\* from both its ends: when line 0 has no recognized prefix, the headline is
\* "<tag>: <line 0>", the tag found by scanning all lines in precedence order.
C5_HeadlineIsTagThenTrimmedLine0 ==
    Formatted =>
        LET lines == LinesOf(Strip(raw))
        IN  ~has_prefix(lines[1]) =>
                Headline = PrecedenceTag(lines) \o <<":", " ">> \o lines[1]

\* a fix keyword on the last line wins over the doc keyword on line 0
C5_Witness ==
    /\ fpc = "formatted"
    /\ raw = <<"u", " ", "d", "o", "c", "\n", "a", "d", "d", " ", "u", "\n", "F", "i", "x", " ", "u">>
    /\ Headline = <<"f", "i", "x", ":", " ", "u", " ", "d", "o", "c">>

----------------------------------------------------------------------------
(* Properties of get_file_changes, under SpecStatus *)

\* the two status characters and the path of line i of the listing
CodeAt(i) == SubSeq(status_output[i], 1, 2)
PathAt(i) == <<status_output[i][4]>>

\* the paths of the lines whose status characters are in codes
PathsWith(codes) == { PathAt(i) : i \in { j \in 1..Len(status_output) : CodeAt(j) \in codes } }

Elems(list) == { list[i] : i \in 1..Len(list) }

\* C9: each path of the listing is in the list its two status characters name and in
\* no other: "A " (and "??" unless staged_only) in new_files, "M " in modified_files,
\* "D " in deleted_files; the paths of all other lines are in none.
C9_Classification ==
    spc = "returned" =>
        LET added == IF staged_only THEN { <<"A", " ">> }
                     ELSE { <<"A", " ">>, <<"?", "?">> }
            new == file_changes.new_files
            mod == file_changes.modified_files
            del == file_changes.deleted_files
        IN  /\ Elems(new) = PathsWith(added)
            /\ Elems(mod) = PathsWith({ <<"M", " ">> })
            /\ Elems(del) = PathsWith({ <<"D", " ">> })
            /\ Len(new) + Len(mod) + Len(del) = Cardinality(Elems(new) \cup Elems(mod) \cup Elems(del))

\* the listing "?? f1.txt", "M  f2.txt", "D  f3.txt", "A  f4.txt" with staged_only False
C9_Witness ==
    /\ spc = "returned"
    /\ ~staged_only
    /\ status_output = << <<"?", "?", " ", "f1.txt">>, <<"M", " ", " ", "f2.txt">>,
                          <<"D", " ", " ", "f3.txt">>, <<"A", " ", " ", "f4.txt">> >>
    /\ file_changes = [new_files |-> << <<"f1.txt">>, <<"f4.txt">> >>,
                       modified_files |-> << <<"f2.txt">> >>,
                       deleted_files |-> << <<"f3.txt">> >>]

----------------------------------------------------------------------------
(* Properties of main, under SpecMain *)

\* main has ended: it returned, called sys.exit or ended on an uncaught exception
Ended == pc \in {"done", "exited", "crashed"}

\* summarize_changes_with_api has returned
Summarized == pc \notin {"idle", "start", "diff", "got_diff", "got_status", "exited"}

\* commit_changes was called and is no longer running
CommitOver == commit_calls > 0 /\ pc \in {"cc_returned", "done", "crashed"}

\* C6: commit_changes returns a (success, output) pair without raising, whatever
\* step fails, and the transient file does not exist once it is over; on a failure
\* the pair is (False, error text).
C6_TempFileReleased ==
    CommitOver =>
        /\ commit_result[1] \in {"True", "False"}
        /\ ~temp_file_exists

\* the typed lines that are an affirmative answer
YesLines == { <<"y">>, <<"y", "e", "s">>, <<"Y">>, <<" ", "Y", "e", "s", " ">> }

\* C7: commit_changes is called at most once, and only on the staged set with
\* --auto-commit, then without reading input, or with --confirm after one line of
\* input that is affirmative; never with --last-commit; after another answer the
\* command to commit by hand is printed.
C7_CommitOnlyWhenAsked ==
    /\ commit_calls <= 1
    /\ input_reads <= 1
    /\ commit_calls = 1 =>
           /\ "--last-commit" \notin argv
           /\ mode = "staged"
           /\ "--auto-commit" \in argv \/ "--confirm" \in argv
    /\ (commit_calls = 1 /\ "--auto-commit" \notin argv) =>
           input_reads = 1 /\ choice \in YesLines
    /\ "--auto-commit" \in argv => input_reads = 0
    /\ (pc = "done" /\ input_reads = 1 /\ choice \notin YesLines) =>
           commit_calls = 0 /\ manual_printed

\* --confirm, the answer " Yes ", and commit_changes called
C7_Witness ==
    /\ pc = "done"
    /\ argv = {"--confirm"}
    /\ choice = <<" ", "Y", "e", "s", " ">>
    /\ commit_calls = 1
    /\ commit_result[1] = "True"

\* the diff or the status classification could not be obtained
NothingObtained == ~Truthy(diff_content) \/ status_result = NoDict

\* C8: main exits with code 1 exactly when the diff or the classification could not
\* be obtained, and then before a summary is requested or a commit made; in every
\* other case it runs to completion with code 0, also when no summary is produced.
C8_ExitCode ==
    Ended =>
        /\ exit_code = 1 <=> NothingObtained
        /\ exit_code = 1 => provider = "none" /\ ~logged_unknown /\ commit_calls = 0
        /\ exit_code # 1 => exit_code = 0 /\ pc = "done"
        /\ (~NothingObtained /\ ~Truthy(raw_commit_message)) =>
               exit_code = 0 /\ commit_message = None /\ commit_calls = 0

\* C10, as stated: provider A when MODEL is empty or not set or starts with "gpt",
\* provider B when it starts with "claude", and for every other string an error is
\* logged, no provider is called and no summary is returned.
C10_ProviderByPrefix ==
    Summarized =>
        IF MODEL = None \/ MODEL = <<>> \/ StartsWith(MODEL, gpt)
        THEN provider = "openai" /\ ~logged_unknown
        ELSE IF StartsWith(MODEL, claude)
        THEN provider = "claude" /\ ~logged_unknown
        ELSE provider = "none" /\ logged_unknown /\ raw_commit_message = None

\* C10, amended: provider A when MODEL is not set, is "OPEN_AI" or starts with
\* "gpt"; provider B when it is "CLAUDE" or starts with "claude"; for every other
\* string, the empty one among them, an error is logged, no provider is called and
\* no summary is returned.
C10_ProviderByNameOrPrefix ==
    Summarized =>
        IF MODEL = None \/ MODEL = OPEN_AI \/ StartsWith(MODEL, gpt)
        THEN provider = "openai" /\ ~logged_unknown
        ELSE IF MODEL = CLAUDE \/ StartsWith(MODEL, claude)
        THEN provider = "claude" /\ ~logged_unknown
        ELSE provider = "none" /\ logged_unknown /\ raw_commit_message = None

\* MODEL set to the empty string: no provider is called
C10_Witness ==
    /\ pc = "done"
    /\ MODEL = <<>>
    /\ provider = "none"
    /\ logged_unknown

====
